---- MODULE Spec2Model ----
(***************************************************************************)
(* Model of the LaTeX-to-PDF compilation service (src/app.py).             *)
(*                                                                         *)
(* The state is the part of the world the handlers compile_tex and health  *)
(* read and write: the temporary directories on the file system, the       *)
(* running engine processes, the search path (is pdflatex resolvable), and *)
(* for every request in flight the position of its handler and the local   *)
(* values it holds.  Requests run concurrently (gunicorn workers and       *)
(* threads, src/gunicorn.conf.py), so compile_tex is cut into actions at   *)
(* its file system and process steps (create the directory, write the      *)
(* source, start the engine, wait for it); building the response and       *)
(* leaving the with block is the last action of a request.  The actions of *)
(* different requests interleave.                                          *)
(***************************************************************************)
EXTENDS Naturals, Sequences, FiniteSets

\* ------------------------------------------------------------------ bounds

\* Number of compile requests that may be in flight at the same time.
NumCalls == 2

\* ------------------------------------------------------- program constants

\* COMPILATION_TIMEOUT = int(os.getenv('COMPILATION_TIMEOUT', 30))
COMPILATION_TIMEOUT == 30

\* ----------------------------------------------------------------- inputs

Calls == 1..NumCalls

\* Names tempfile may give a new directory: one per possible live request.
DirNames == 1..NumCalls

\* Request bodies: a body is a sequence of tokens of LaTeX source.  The empty
\* body, a plain document, and a document that uses a shell escape.
Sources == {<<>>, <<"Test">>, <<"Test", "\\write18">>}

\* The capability-granting tokens the documentation says are blocked
\* ("Security scanning blocks dangerous commands", response 403).
Denylist == {"\\write18"}

ContainsDenied(s) == \E i \in 1..Len(s) : s[i] \in Denylist

\* ------------------------------------------------------------ file system

NoFile == [exists |-> FALSE, data |-> <<>>]
File(d) == [exists |-> TRUE, data |-> d]

\* A directory of the temporary area: document.tex, document.log and
\* document.pdf are the only files the handler and the engine name.
NoDir == [exists |-> FALSE, owner |-> 0, tex |-> NoFile, log |-> NoFile, pdf |-> NoFile]
EmptyDir(c) == [exists |-> TRUE, owner |-> c, tex |-> NoFile, log |-> NoFile, pdf |-> NoFile]

\* What the engine writes for the source it read from its working directory.
LogOf(tex) == <<"This is pdfTeX">> \o tex
PdfOf(tex) == <<"%PDF">> \o tex

\* The ways one run of the engine can end by itself.
Fates == {"ok", "nopdf", "faillog", "failnolog"}

ReturnCode(fate) == IF fate \in {"ok", "nopdf"} THEN 0 ELSE 1

\* ---------------------------------------------------------------- results

\* What compile_tex hands back: a response, or (kind "Fault") an exception
\* that leaves compile_tex.  body.read says whether the bytes of the body are
\* held by the response itself; a streamed body is read later from the open
\* file of the request.
NoBody == [read |-> TRUE, bytes |-> <<>>]
Result(kind, status, error, logs, limit, body) ==
    [kind |-> kind, status |-> status, error |-> error, logs |-> logs,
     limit |-> limit, body |-> body]

NoResult == Result("None", 0, "", <<>>, 0, NoBody)
ValidationError ==
    Result("ValidationError", 400, "No .tex content provided in the request body.",
           <<>>, 0, NoBody)
CompileFailed(logs) == Result("CompileFailed", 400, "PDF compilation failed.", logs, 0, NoBody)
TimedOut == Result("TimedOut", 408, "Compilation timed out", <<>>, COMPILATION_TIMEOUT, NoBody)
InternalError == Result("InternalError", 500, "An unexpected error occurred", <<>>, 0, NoBody)
Streamed == Result("Success", 200, "", <<>>, 0, [read |-> FALSE, bytes |-> <<>>])
Fault(what) == Result("Fault", 0, what, <<>>, 0, NoBody)

NoProc == [state |-> "none", returncode |-> 0]

\* ------------------------------------------------- the handler's decisions

\* Mutant of IsEmptyBody: the check of the body is missing.
NeverEmpty(s) == FALSE

\* if not tex_content
IsEmptyBody(s) == Len(s) = 0

\* Mutant of FreshNames: the name is not checked against the directories in use.
AnyName(f) == DirNames

\* tempfile.TemporaryDirectory(): a new directory under a name not in use.
FreshNames(f) == {w \in DirNames : ~f[w].exists}

\* Mutant of Cleanup: the directory is left behind.
CleanupNothing(f, w) == f

\* Leaving the with block: the directory and everything in it is removed.
Cleanup(f, w) == [f EXCEPT ![w] = NoDir]

\* log_content = "" unless document.log exists, then its whole content.
ReadLog(dir) == IF dir.log.exists THEN dir.log.data ELSE <<>>

\* Mutant of ClassifyFailure: a missing log is an internal error.
ClassifyFailureNeedsLog(dir) ==
    IF dir.log.exists THEN CompileFailed(dir.log.data) ELSE InternalError

\* proc.returncode != 0
ClassifyFailure(dir) == CompileFailed(ReadLog(dir))

\* Mutant of SendFile: the response is built whether or not the file exists.
SendFileUnchecked(dir) == Streamed

\* send_file(pdf_filepath, ...): stats and opens document.pdf and returns a
\* response that streams from the open file; a missing file raises, and the
\* handler's except Exception turns that into the 500 response.
SendFile(dir) == IF dir.pdf.exists THEN Streamed ELSE InternalError

ClassifyResult(p, dir) ==
    IF p.returncode # 0 THEN ClassifyFailure(dir) ELSE SendFile(dir)

\* subprocess.run(..., timeout=COMPILATION_TIMEOUT): on expiry it kills the
\* child it started and waits for it; processes the child started are not
\* signalled.
Child(c, w) == [call |-> c, kind |-> "child", cwd |-> w]
Descendant(c, w) == [call |-> c, kind |-> "descendant", cwd |-> w]
KillOnTimeout(ps, c) == {p \in ps : ~(p.call = c /\ p.kind = "child")}

\* The engine leaves by itself: it has waited for the processes it started.
ReapOnExit(ps, c) == {p \in ps : p.call # c}

\* What one run of the engine leaves in its working directory.
EngineWrites(dir, fate) ==
    IF ~dir.exists THEN dir
    ELSE [dir EXCEPT
            !.log = IF fate = "failnolog" THEN @ ELSE File(LogOf(dir.tex.data)),
            !.pdf = IF fate = "ok" THEN File(PdfOf(dir.tex.data)) ELSE @]

\* Mutant of HealthStatus: the probe does not look at the search path.
HealthAlwaysPresent(present) == [status |-> "ok", pdflatex_present |-> TRUE]

\* which("pdflatex") is not None
HealthStatus(present) == [status |-> "ok", pdflatex_present |-> present]
NoHealth == [status |-> "none", pdflatex_present |-> FALSE]

\* ------------------------------------------------------------------ state

VARIABLES
    pc,            \* per request: where its handler stands
    src,           \* per request: tex_content
    ws,            \* per request: temp_dir (0: none)
    proc,          \* per request: the completed process of subprocess.run
    result,        \* per request: the response or exception being returned
    openFile,      \* per request: the file the response holds open
    acquired,      \* per request: directories created so far
    released,      \* per request: directories removed so far
    wrote,         \* per request: document.tex was written
    invoked,       \* per request: the engine was started
    path,          \* per request: what the environment did to this request
    fs,            \* the temporary area: name -> directory
    procs,         \* the engine processes that are running
    enginePresent, \* pdflatex is resolvable on the search path
    healthResp     \* the response of the health request in flight

callVars == <<pc, src, ws, proc, result, openFile, acquired, released, wrote, invoked, path>>
vars == <<pc, src, ws, proc, result, openFile, acquired, released, wrote, invoked, path,
          fs, procs, enginePresent, healthResp>>

Init ==
    /\ pc = [c \in Calls |-> "idle"]
    /\ src = [c \in Calls |-> <<>>]
    /\ ws = [c \in Calls |-> 0]
    /\ proc = [c \in Calls |-> NoProc]
    /\ result = [c \in Calls |-> NoResult]
    /\ openFile = [c \in Calls |-> NoFile]
    /\ acquired = [c \in Calls |-> 0]
    /\ released = [c \in Calls |-> 0]
    /\ wrote = [c \in Calls |-> FALSE]
    /\ invoked = [c \in Calls |-> FALSE]
    /\ path = [c \in Calls |-> "none"]
    /\ fs = [w \in DirNames |-> NoDir]
    /\ procs = {}
    /\ enginePresent \in BOOLEAN
    /\ healthResp = NoHealth

\* ---------------------------------------------------------------- actions

\* POST /compile with an empty body: 400 at once.
ReceiveEmpty(c) ==
    /\ pc[c] = "idle"
    /\ \E s \in Sources :
        /\ IsEmptyBody(s)
        /\ src' = [src EXCEPT ![c] = s]
    /\ result' = [result EXCEPT ![c] = ValidationError]
    /\ path' = [path EXCEPT ![c] = "empty"]
    /\ pc' = [pc EXCEPT ![c] = "done"]
    /\ UNCHANGED <<ws, proc, openFile, acquired, released, wrote, invoked,
                   fs, procs, enginePresent, healthResp>>

\* POST /compile with a body: the temporary directory is created.
Acquire(c) ==
    /\ pc[c] = "idle"
    /\ \E s \in Sources, w \in FreshNames(fs) :
        /\ ~IsEmptyBody(s)
        /\ src' = [src EXCEPT ![c] = s]
        /\ ws' = [ws EXCEPT ![c] = w]
        /\ fs' = [fs EXCEPT ![w] = EmptyDir(c)]
    /\ acquired' = [acquired EXCEPT ![c] = @ + 1]
    /\ pc' = [pc EXCEPT ![c] = "write"]
    /\ UNCHANGED <<proc, result, openFile, released, wrote, invoked, path,
                   procs, enginePresent, healthResp>>

\* POST /compile with a body, and the directory cannot be created: the
\* exception of TemporaryDirectory() leaves compile_tex (no try around it).
AcquireFails(c) ==
    /\ pc[c] = "idle"
    /\ \E s \in Sources :
        /\ ~IsEmptyBody(s)
        /\ src' = [src EXCEPT ![c] = s]
    /\ result' = [result EXCEPT ![c] = Fault("ResourceError")]
    /\ path' = [path EXCEPT ![c] = "allocfail"]
    /\ pc' = [pc EXCEPT ![c] = "done"]
    /\ UNCHANGED <<ws, proc, openFile, acquired, released, wrote, invoked,
                   fs, procs, enginePresent, healthResp>>

\* open(tex_filepath, 'w'); f.write(tex_content)
WriteSource(c) ==
    /\ pc[c] = "write"
    /\ fs[ws[c]].exists
    /\ fs' = [fs EXCEPT ![ws[c]].tex = File(src[c])]
    /\ wrote' = [wrote EXCEPT ![c] = TRUE]
    /\ pc' = [pc EXCEPT ![c] = "run"]
    /\ UNCHANGED <<src, ws, proc, result, openFile, acquired, released, invoked, path,
                   procs, enginePresent, healthResp>>

\* The with block is left, by return or by exception: the directory is
\* removed before compile_tex has returned (or raised).
LeaveWith(c) ==
    /\ fs' = Cleanup(fs, ws[c])
    /\ released' = [released EXCEPT ![c] = @ + 1]
    /\ ws' = [ws EXCEPT ![c] = 0]
    /\ pc' = [pc EXCEPT ![c] = "done"]

\* The write raises: it stands before the try, so the exception goes through
\* the with block (which cleans up) and out of compile_tex.
WriteFails(c) ==
    /\ pc[c] = "write"
    /\ result' = [result EXCEPT ![c] = Fault("OSError")]
    /\ path' = [path EXCEPT ![c] = "writefail"]
    /\ LeaveWith(c)
    /\ UNCHANGED <<src, proc, openFile, acquired, wrote, invoked,
                   procs, enginePresent, healthResp>>

\* subprocess.run starts pdflatex with cwd=temp_dir.
Launch(c) ==
    /\ pc[c] = "run"
    /\ enginePresent
    /\ procs' = procs \cup {Child(c, ws[c])}
    /\ invoked' = [invoked EXCEPT ![c] = TRUE]
    /\ pc' = [pc EXCEPT ![c] = "running"]
    /\ UNCHANGED <<src, ws, proc, result, openFile, acquired, released, wrote, path,
                   fs, enginePresent, healthResp>>

\* pdflatex is not on the search path: subprocess.run raises
\* FileNotFoundError inside the try, except Exception answers 500 and the
\* return leaves the with block.
LaunchFails(c) ==
    /\ pc[c] = "run"
    /\ ~enginePresent
    /\ result' = [result EXCEPT ![c] = InternalError]
    /\ path' = [path EXCEPT ![c] = "noengine"]
    /\ LeaveWith(c)
    /\ UNCHANGED <<src, proc, openFile, acquired, wrote, invoked,
                   procs, enginePresent, healthResp>>

\* The running engine starts a process of its own (restricted shell escape,
\* font generation).
Spawn(c) ==
    /\ pc[c] = "running"
    /\ Descendant(c, ws[c]) \notin procs
    /\ procs' = procs \cup {Descendant(c, ws[c])}
    /\ UNCHANGED <<callVars, fs, enginePresent, healthResp>>

\* The engine ends by itself within the deadline.
EngineExit(c) ==
    /\ pc[c] = "running"
    /\ \E fate \in Fates :
        /\ fs' = [fs EXCEPT ![ws[c]] = EngineWrites(@, fate)]
        /\ proc' = [proc EXCEPT ![c] = [state |-> "exited", returncode |-> ReturnCode(fate)]]
        /\ path' = [path EXCEPT ![c] = fate]
    /\ procs' = ReapOnExit(procs, c)
    /\ pc' = [pc EXCEPT ![c] = "classify"]
    /\ UNCHANGED <<src, ws, result, openFile, acquired, released, wrote, invoked,
                   enginePresent, healthResp>>

\* The deadline passes first: subprocess.run kills the child and raises
\* TimeoutExpired, the handler answers 408 and the return leaves the with
\* block.
Deadline(c) ==
    /\ pc[c] = "running"
    /\ procs' = KillOnTimeout(procs, c)
    /\ proc' = [proc EXCEPT ![c] = [state |-> "timedout", returncode |-> 0]]
    /\ result' = [result EXCEPT ![c] = TimedOut]
    /\ path' = [path EXCEPT ![c] = "timeout"]
    /\ LeaveWith(c)
    /\ UNCHANGED <<src, openFile, acquired, wrote, invoked, enginePresent, healthResp>>

\* The code after subprocess.run returned: the 400 with the log, or
\* send_file (which opens document.pdf), and the return leaves the with block.
Classify(c) ==
    /\ pc[c] = "classify"
    /\ LET r == ClassifyResult(proc[c], fs[ws[c]])
       IN  /\ result' = [result EXCEPT ![c] = r]
           /\ openFile' = [openFile EXCEPT ![c] =
                             IF r.kind = "Success" THEN fs[ws[c]].pdf ELSE @]
    /\ LeaveWith(c)
    /\ UNCHANGED <<src, proc, acquired, wrote, invoked, path,
                   procs, enginePresent, healthResp>>

\* The server sends the response (a streamed body is read from the open file
\* and the file closed) and the worker is free for the next request.
Respond(c) ==
    /\ pc[c] = "done"
    /\ pc' = [pc EXCEPT ![c] = "idle"]
    /\ src' = [src EXCEPT ![c] = <<>>]
    /\ ws' = [ws EXCEPT ![c] = 0]
    /\ proc' = [proc EXCEPT ![c] = NoProc]
    /\ result' = [result EXCEPT ![c] = NoResult]
    /\ openFile' = [openFile EXCEPT ![c] = NoFile]
    /\ acquired' = [acquired EXCEPT ![c] = 0]
    /\ released' = [released EXCEPT ![c] = 0]
    /\ wrote' = [wrote EXCEPT ![c] = FALSE]
    /\ invoked' = [invoked EXCEPT ![c] = FALSE]
    /\ path' = [path EXCEPT ![c] = "none"]
    /\ procs' = {p \in procs : p.call # c}
    /\ UNCHANGED <<fs, enginePresent, healthResp>>

\* GET /health
Health ==
    /\ healthResp = NoHealth
    /\ healthResp' = HealthStatus(enginePresent)
    /\ UNCHANGED <<callVars, fs, procs, enginePresent>>

HealthSent ==
    /\ healthResp # NoHealth
    /\ healthResp' = NoHealth
    /\ UNCHANGED <<callVars, fs, procs, enginePresent>>

\* The environment: pdflatex is installed or removed.
SetEngine ==
    /\ enginePresent' = ~enginePresent
    /\ UNCHANGED <<callVars, fs, procs, healthResp>>

Next ==
    \/ \E c \in Calls : ReceiveEmpty(c)
    \/ \E c \in Calls : Acquire(c)
    \/ \E c \in Calls : AcquireFails(c)
    \/ \E c \in Calls : WriteSource(c)
    \/ \E c \in Calls : WriteFails(c)
    \/ \E c \in Calls : Launch(c)
    \/ \E c \in Calls : LaunchFails(c)
    \/ \E c \in Calls : Spawn(c)
    \/ \E c \in Calls : EngineExit(c)
    \/ \E c \in Calls : Deadline(c)
    \/ \E c \in Calls : Classify(c)
    \/ \E c \in Calls : Respond(c)
    \/ SetEngine

Spec == Init /\ [][Next]_vars

\* The service with its health endpoint.
NextHealth ==
    \/ Next
    \/ Health
    \/ HealthSent

SpecHealth == Init /\ [][NextHealth]_vars

\* ----------------------------------------------------------------- claims

Finished(c) == pc[c] = "done"
Holding(c) == pc[c] \in {"write", "run", "running", "classify"}
OwnedDirs(c) == {w \in DirNames : fs[w].exists /\ fs[w].owner = c}
ProcsOf(c) == {p \in procs : p.call = c}

\* C1: a compile of a source that contains a denylist token never acquires
\* a workspace and never starts the engine, and when it has finished it was
\* answered SecurityRejected with that token.
DeniedSourceIsRejected ==
    \A c \in Calls :
        (pc[c] # "idle" /\ ContainsDenied(src[c])) =>
            /\ acquired[c] = 0
            /\ ~invoked[c]
            /\ Finished(c) =>
                (result[c].kind = "SecurityRejected" /\ result[c].error \in Denylist)

\* C2: a finished compile of an empty source was answered with the 400
\* validation failure and has acquired no workspace, written no source file
\* and started no engine.
EmptySourceIsRejectedAtOnce ==
    \A c \in Calls :
        (Finished(c) /\ Len(src[c]) = 0) =>
            /\ result[c] = ValidationError
            /\ result[c].status = 400
            /\ acquired[c] = 0
            /\ ~wrote[c]
            /\ ~invoked[c]
            /\ OwnedDirs(c) = {}
            /\ ProcsOf(c) = {}

EmptySourceSeen ==
    \E c \in Calls : Finished(c) /\ Len(src[c]) = 0 /\ result[c].status = 400

\* C3: a workspace is released at most once, a request that still runs inside
\* the with block holds its workspace unreleased, and once compile_tex has
\* returned or raised, every workspace it acquired has been released exactly
\* once and no directory of the request exists.
WorkspaceReleasedOnEveryExit ==
    \A c \in Calls :
        /\ released[c] <= acquired[c]
        /\ acquired[c] <= 1
        /\ Holding(c) => (acquired[c] = 1 /\ released[c] = 0 /\ OwnedDirs(c) = {ws[c]})
        /\ Finished(c) => (released[c] = acquired[c] /\ OwnedDirs(c) = {})

ReleasedAfterWriteFault ==
    \E c \in Calls :
        Finished(c) /\ path[c] = "writefail" /\ acquired[c] = 1 /\ released[c] = 1

\* C4: a compile that ran into the deadline was answered TimedOut with the
\* configured deadline, and no process of that request, the child or one the
\* child started, is running once compile_tex has returned.
TimeoutLeavesNoProcess ==
    \A c \in Calls :
        (Finished(c) /\ path[c] = "timeout") =>
            /\ result[c].kind = "TimedOut"
            /\ result[c].limit = COMPILATION_TIMEOUT
            /\ ProcsOf(c) = {}

MissingArtifactIsInternalError ==
    [][\A c \in Calls :
          (pc[c] = "classify" /\ pc'[c] = "done" /\ proc[c].returncode = 0
              /\ ~fs[ws[c]].pdf.exists) =>
              /\ result'[c].kind = "InternalError"
              /\ result'[c].status = 500]_vars

MissingArtifactSeen ==
    \E c \in Calls :
        /\ Finished(c) /\ path[c] = "nopdf" /\ proc[c].returncode = 0
        /\ result[c].status = 500

\* C7: every finished compile has returned an Outcome as data; none ended by
\* an exception leaving compile_tex.
EveryPathReturnsAnOutcome ==
    \A c \in Calls :
        Finished(c) =>
            result[c].kind \in {"ValidationError", "SecurityRejected", "Success",
                                "CompileFailed", "TimedOut", "InternalError"}

\* The answer a request gives when it runs alone, from its body and from what
\* the environment did to it.
SoloResult(s, p) ==
    CASE p = "empty" -> ValidationError
      [] p = "allocfail" -> Fault("ResourceError")
      [] p = "writefail" -> Fault("OSError")
      [] p = "noengine" -> InternalError
      [] p = "timeout" -> TimedOut
      [] p = "ok" -> Streamed
      [] p = "nopdf" -> InternalError
      [] p = "faillog" -> CompileFailed(LogOf(s))
      [] p = "failnolog" -> CompileFailed(<<>>)
      [] OTHER -> NoResult

SoloBody(s, p) == IF p = "ok" THEN File(PdfOf(s)) ELSE NoFile

\* C8: under every interleaving no two live requests hold the same
\* directory, the directory a request holds is its own and holds only what
\* was made from its own source, its engine runs in that directory, and the
\* answer of a finished request (and the body it streams) is the one the
\* request gives when it runs alone.
ConcurrentCompilesAreIsolated ==
    \A c \in Calls :
        /\ \A d \in Calls : (c # d /\ Holding(c) /\ Holding(d)) => ws[c] # ws[d]
        /\ Holding(c) =>
            /\ fs[ws[c]].exists /\ fs[ws[c]].owner = c
            /\ fs[ws[c]].tex.exists => fs[ws[c]].tex.data = src[c]
            /\ fs[ws[c]].log.exists => fs[ws[c]].log.data = LogOf(src[c])
            /\ fs[ws[c]].pdf.exists => fs[ws[c]].pdf.data = PdfOf(src[c])
        /\ \A p \in ProcsOf(c) : p.kind = "child" => (Holding(c) /\ p.cwd = ws[c])
        /\ Finished(c) =>
            /\ result[c] = SoloResult(src[c], path[c])
            /\ openFile[c] = SoloBody(src[c], path[c])

TwoCompilesOfTheSameSource ==
    \E c, d \in Calls :
        /\ c # d
        /\ src[c] = src[d]
        /\ Finished(c) /\ result[c].kind = "Success"
        /\ pc[d] = "classify" /\ fs[ws[d]].pdf.exists

\* C9: a health probe answers status ok with pdflatex_present equal to
\* whether the engine is resolvable at that moment, and the step changes no
\* directory, no file, no process and no compile request.
HealthReportsEnginePresence ==
    [][(healthResp = NoHealth /\ healthResp' # NoHealth) =>
          /\ healthResp' = [status |-> "ok", pdflatex_present |-> enginePresent]
          /\ UNCHANGED <<callVars, fs, procs, enginePresent>>]_vars

HealthWithoutEngineSeen ==
    /\ healthResp.status = "ok"
    /\ ~healthResp.pdflatex_present
    /\ ~enginePresent
    /\ \E c \in Calls : Holding(c)

\* C10: a finished successful compile holds the whole bytes of the artifact
\* in its response, read before the workspace was released, and keeps no
\* file of the workspace open.
SuccessBodyReadBeforeRelease ==
    \A c \in Calls :
        (Finished(c) /\ result[c].kind = "Success") =>
            /\ result[c].body.read
            /\ result[c].body.bytes = PdfOf(src[c])
            /\ ~openFile[c].exists

====
